---- MODULE Spec2Model ----
(***************************************************************************)
(* combarc: CombArc<T> / CombRc<T>, a clone-on-mutable-borrow wrapper      *)
(* around alloc::sync::Arc<T> / alloc::rc::Rc<T>.                          *)
(*                                                                         *)
(* The heap is a set of reference-counted cells (the ArcInner / RcBox      *)
(* allocations).  A cell carries the pointee, the number of owning         *)
(* handles (Arc::strong_count) and the number of observing handles         *)
(* (Arc::weak_count).  A program holds owning handles in variables         *)
(* (handle slots), either wrapped (CombArc / CombRc) or raw (Arc / Rc),    *)
(* and observing handles (Weak) in observer slots.  Both tiers are the     *)
(* same text up to Arc/Rc, and the single-threaded behaviour of Arc and    *)
(* Rc is the same, so one set of operations models both.                   *)
(***************************************************************************)
EXTENDS Integers, FiniteSets, TLC

\* ---- bounds ------------------------------------------------------------
MaxCells == 2
NumHandles == 2
NumObservers == 1
NumThreads == 2

Cells == 1..MaxCells
Handles == 1..NumHandles
Observers == 1..NumObservers
Threads == 1..NumThreads

\* ---- the pointee type T ------------------------------------------------
\* The tests instantiate T with Cell<bool>; 0 is false, 1 is true.
Values == {0, 1}
\* A destroyed or moved-out pointee.
NoValue == -1
\* An empty slot (no handle), Option::None.
NoCell == 0
\* No slot: a returned handle that is not kept.
NoSlot == 0

VARIABLES
    strong,     \* strong[c]: Arc::strong_count of cell c
    weak,       \* weak[c]: Arc::weak_count of cell c (Weak handles only)
    value,      \* value[c]: the pointee of cell c, NoValue once destroyed or moved
    used,       \* number of cells allocated so far; the next allocation is used + 1
    owner,      \* owner[h]: the cell the owning handle in slot h references (as_ptr)
    kind,       \* kind[h]: "none" (empty slot), "comb" (CombArc/CombRc), "raw" (Arc/Rc)
    obs,        \* obs[o]: the cell the Weak in slot o references, NoCell if empty
    last,       \* the operation executed last, its arguments and its result
    thr         \* the spawned threads: thr[t].pc where thread t is in its current
                \* operation, thr[t].h the handle it works on, thr[t].held and
                \* thr[t].weaks the handles and the Weaks that were moved into it

vars == <<strong, weak, value, used, owner, kind, obs, last, thr>>

\* What the last operation was: op its name, h the handle (or observer) slot
\* it was called on, cell the cell that slot referenced at call time, ok
\* whether it succeeded (Ok / Some), val the value it returned or showed
\* through the returned view, cloned whether T::clone ran, g the second
\* handle of a comparison (NoSlot otherwise).
Result(op, h, cell, ok, val, cloned) ==
    [op |-> op, h |-> h, g |-> NoSlot, cell |-> cell, ok |-> ok, val |-> val,
     cloned |-> cloned]

\* ---- primitives of the reference counter --------------------------------

\* Mutant: the clone is a default value, not a copy.
TClone_Default(v) == 0

\* <T as Clone>::clone for T = Cell<bool>: a copy of the contained bool.
TClone(v) == v

\* Mutant: the clone forgets to count itself.
IncStrong_NotCounted(c) == strong

\* Arc::clone / Weak::upgrade: one more owning handle.
IncStrong(c) == [strong EXCEPT ![c] = @ + 1]

\* Mutant: a dropped owning handle stays counted.
DropStrongCount_Leaked(c) == strong

\* Drop of an owning handle: one fewer owner; the last one destroys the pointee.
DropStrongCount(c) == [strong EXCEPT ![c] = @ - 1]
DropStrongValue(c) == IF strong[c] = 1 THEN [value EXCEPT ![c] = NoValue] ELSE value

\* Mutant: make_mut never clones, it always borrows in place.
MakeMutClones_Never(c) == FALSE
\* Mutant: two owners still count as unique.
MakeMutClones_OffByOne(c) == strong[c] > 2
\* Mutant: clone whenever any other handle exists, Weak handles included.
MakeMutClones_OnWeak(c) == strong[c] /= 1 \/ weak[c] /= 0

\* Arc::make_mut, first branch: another owning handle exists, clone the pointee.
MakeMutClones(c) == strong[c] /= 1

\* Mutant: the sole owner always moves the pointee to a fresh allocation.
MakeMutSteals_Always(c) == strong[c] = 1
\* Mutant: the sole owner borrows in place although Weak handles remain.
MakeMutSteals_Never(c) == FALSE

\* Arc::make_mut, second branch: sole owner but Weak handles remain; the
\* pointee is moved to a fresh allocation and the Weaks are left behind.
MakeMutSteals(c) == strong[c] = 1 /\ weak[c] /= 0

\* Mutant: Weak handles block the move as well.
TryUnwrapOk_NoWeak(c) == strong[c] = 1 /\ weak[c] = 0
\* Mutant: the pointee is moved out from under the other owners.
TryUnwrapOk_Shared(c) == strong[c] >= 1

\* Arc::try_unwrap succeeds when this is the only owning handle.
TryUnwrapOk(c) == strong[c] = 1

\* Mutant: upgrade succeeds while the allocation exists.
UpgradeOk_WhileAllocated(c) == weak[c] > 0

\* Weak::upgrade succeeds while an owning handle exists.
UpgradeOk(c) == strong[c] > 0

\* Mutant: handles are compared by pointer identity.
HandleEq_PtrEq(h, g) == owner[h] = owner[g]

\* PartialEq derived on the wrapper: compares the pointees.
HandleEq(h, g) == value[owner[h]] = value[owner[g]]

\* as_ptr of the pointee: the address of the cell.
as_ptr(h) == owner[h]

\* A single thread of execution: no thread has been spawned.
NoThreads == <<>>

Init ==
    /\ strong = [c \in Cells |-> 0]
    /\ weak = [c \in Cells |-> 0]
    /\ value = [c \in Cells |-> NoValue]
    /\ used = 0
    /\ owner = [h \in Handles |-> NoCell]
    /\ kind = [h \in Handles |-> "none"]
    /\ obs = [o \in Observers |-> NoCell]
    /\ last = Result("init", NoSlot, NoCell, TRUE, NoValue, FALSE)
    /\ thr = NoThreads

\* ---- operations ---------------------------------------------------------

\* CombArc::new(what): a fresh cell with one owner and no observer.
new(g, v) ==
    /\ kind[g] = "none"
    /\ used < MaxCells
    /\ LET n == used + 1 IN
       /\ strong' = [strong EXCEPT ![n] = 1]
       /\ weak' = [weak EXCEPT ![n] = 0]
       /\ value' = [value EXCEPT ![n] = v]
       /\ used' = n
       /\ owner' = [owner EXCEPT ![g] = n]
       /\ kind' = [kind EXCEPT ![g] = "comb"]
       /\ obs' = obs
       /\ last' = Result("new", g, NoCell, TRUE, v, FALSE)

\* Mutant: from_arc wraps a clone of the raw handle and leaks the original.
from_arc_Cloned(h) ==
    /\ kind[h] = "raw"
    /\ kind' = [kind EXCEPT ![h] = "comb"]
    /\ strong' = [strong EXCEPT ![owner[h]] = @ + 1]
    /\ UNCHANGED <<weak, value, used, owner, obs>>
    /\ last' = Result("from_arc", h, owner[h], TRUE, NoValue, FALSE)

\* CombArc::from_arc(what) / From<Arc<T>>: wraps the raw handle, same cell.
from_arc(h) ==
    /\ kind[h] = "raw"
    /\ kind' = [kind EXCEPT ![h] = "comb"]
    /\ UNCHANGED <<strong, weak, value, used, owner, obs>>
    /\ last' = Result("from_arc", h, owner[h], TRUE, NoValue, FALSE)

\* From<CombArc<T>> for Arc<T>: gives the inner raw handle back.
into_arc(h) ==
    /\ kind[h] = "comb"
    /\ kind' = [kind EXCEPT ![h] = "raw"]
    /\ UNCHANGED <<strong, weak, value, used, owner, obs>>
    /\ last' = Result("into_arc", h, owner[h], TRUE, NoValue, FALSE)

\* #[derive(Clone)]: clones the inner Arc, a new handle on the same cell.
clone(h, g) ==
    /\ kind[h] = "comb"
    /\ kind[g] = "none"
    /\ LET c == owner[h] IN
       /\ strong' = IncStrong(c)
       /\ owner' = [owner EXCEPT ![g] = c]
       /\ kind' = [kind EXCEPT ![g] = "comb"]
       /\ UNCHANGED <<weak, value, used, obs>>
       /\ last' = Result("clone", h, owner[h], TRUE, NoValue, FALSE)

\* CombArc::clone_unique(what): Self::new(what.inner.as_ref().clone()).
clone_unique(h, g) ==
    /\ kind[h] = "comb"
    /\ kind[g] = "none"
    /\ used < MaxCells
    /\ LET c == owner[h]
           n == used + 1 IN
       /\ strong' = [strong EXCEPT ![n] = 1]
       /\ weak' = [weak EXCEPT ![n] = 0]
       /\ value' = [value EXCEPT ![n] = TClone(value[c])]
       /\ used' = n
       /\ owner' = [owner EXCEPT ![g] = n]
       /\ kind' = [kind EXCEPT ![g] = "comb"]
       /\ obs' = obs
       /\ last' = Result("clone_unique", h, owner[h], TRUE, NoValue, TRUE)

\* Deref::deref: a shared view of the pointee.
deref(h) ==
    /\ kind[h] = "comb"
    /\ UNCHANGED <<strong, weak, value, used, owner, kind, obs>>
    /\ last' = Result("deref", h, owner[h], TRUE, value[owner[h]], FALSE)

\* CombArc::get_arc(what): a shared reference to the inner raw handle.
get_arc(h) ==
    /\ kind[h] = "comb"
    /\ UNCHANGED <<strong, weak, value, used, owner, kind, obs>>
    /\ last' = Result("get_arc", h, owner[h], TRUE, NoValue, FALSE)

\* h == g through the derived PartialEq; ok is the outcome, val h's pointee.
eq(h, g) ==
    /\ kind[h] = "comb" /\ kind[g] = "comb"
    /\ UNCHANGED <<strong, weak, value, used, owner, kind, obs>>
    /\ last' = [Result("eq", h, owner[h], HandleEq(h, g), value[owner[h]], FALSE)
                  EXCEPT !.g = g]

\* Mutant: interior mutation copies on write like a mutable borrow.
set_CopyOnWrite(h, v) ==
    /\ kind[h] = "comb"
    /\ IF strong[owner[h]] > 1 /\ used < MaxCells
       THEN /\ strong' = [strong EXCEPT ![owner[h]] = @ - 1, ![used + 1] = 1]
            /\ value' = [value EXCEPT ![used + 1] = v]
            /\ used' = used + 1
            /\ owner' = [owner EXCEPT ![h] = used + 1]
            /\ UNCHANGED <<weak, kind, obs>>
       ELSE /\ value' = [value EXCEPT ![owner[h]] = v]
            /\ UNCHANGED <<strong, weak, used, owner, kind, obs>>
    /\ last' = Result("set", h, owner[h], TRUE, v, FALSE)

\* Cell::set through Deref (my_value.set(v)): interior mutation of the pointee.
set(h, v) ==
    /\ kind[h] = "comb"
    /\ value' = [value EXCEPT ![owner[h]] = v]
    /\ UNCHANGED <<strong, weak, used, owner, kind, obs>>
    /\ last' = Result("set", h, owner[h], TRUE, v, FALSE)

\* DerefMut::deref_mut: Arc::make_mut(&mut self.inner), then the caller's use
\* of the returned &mut T: a write of w, or no write when w = NoValue.
deref_mut(h, w) ==
    /\ kind[h] = "comb"
    /\ LET c == owner[h]
           n == used + 1
           written(v) == IF w = NoValue THEN v ELSE w IN
       IF MakeMutClones(c)
       THEN \* clone the pointee into a fresh cell; the old handle is dropped
            /\ used < MaxCells
            /\ strong' = [DropStrongCount(c) EXCEPT ![n] = 1]
            /\ weak' = [weak EXCEPT ![n] = 0]
            /\ value' = [DropStrongValue(c) EXCEPT ![n] = written(TClone(value[c]))]
            /\ used' = n
            /\ owner' = [owner EXCEPT ![h] = n]
            /\ UNCHANGED <<kind, obs>>
            /\ last' = Result("deref_mut", h, owner[h], TRUE, TClone(value[c]), TRUE)
       ELSE IF MakeMutSteals(c)
       THEN \* move the pointee into a fresh cell; the Weaks keep the old one
            /\ used < MaxCells
            /\ strong' = [strong EXCEPT ![c] = 0, ![n] = 1]
            /\ weak' = [weak EXCEPT ![n] = 0]
            /\ value' = [value EXCEPT ![c] = NoValue, ![n] = written(value[c])]
            /\ used' = n
            /\ owner' = [owner EXCEPT ![h] = n]
            /\ UNCHANGED <<kind, obs>>
            /\ last' = Result("deref_mut", h, owner[h], TRUE, value[c], FALSE)
       ELSE \* unique: borrow in place
            /\ value' = [value EXCEPT ![c] = written(value[c])]
            /\ UNCHANGED <<strong, weak, used, owner, kind, obs>>
            /\ last' = Result("deref_mut", h, owner[h], TRUE, value[c], FALSE)

\* Arc::try_unwrap succeeded: the pointee is moved out, the handle is gone.
MoveOut(h) ==
    /\ strong' = [strong EXCEPT ![owner[h]] = 0]
    /\ value' = [value EXCEPT ![owner[h]] = NoValue]
    /\ owner' = [owner EXCEPT ![h] = NoCell]
    /\ kind' = [kind EXCEPT ![h] = "none"]
    /\ UNCHANGED <<weak, used, obs>>

\* Drop of the owning handle in slot h.
DropHandle(h) ==
    /\ strong' = DropStrongCount(owner[h])
    /\ value' = DropStrongValue(owner[h])
    /\ owner' = [owner EXCEPT ![h] = NoCell]
    /\ kind' = [kind EXCEPT ![h] = "none"]
    /\ UNCHANGED <<weak, used, obs>>

\* Mutant: the failure path drops the handle instead of returning it.
ReturnErr_Dropped(h) == DropHandle(h)
\* Mutant: the failure path returns a handle on a private copy.
ReturnErr_Rebound(h) ==
    /\ used < MaxCells
    /\ strong' = [strong EXCEPT ![owner[h]] = @ - 1, ![used + 1] = 1]
    /\ value' = [value EXCEPT ![used + 1] = value[owner[h]]]
    /\ used' = used + 1
    /\ owner' = [owner EXCEPT ![h] = used + 1]
    /\ UNCHANGED <<weak, kind, obs>>

\* Arc::try_unwrap failed: .map_err(Self::from_arc) wraps the handle again.
ReturnErr(h) ==
    UNCHANGED <<strong, weak, value, used, owner, kind, obs>>

\* CombArc::try_unwrap(what).
try_unwrap(h) ==
    /\ kind[h] = "comb"
    /\ LET c == owner[h] IN
       IF TryUnwrapOk(c)
       THEN /\ MoveOut(h)
            /\ last' = Result("try_unwrap", h, owner[h], TRUE, value[c], FALSE)
       ELSE /\ ReturnErr(h)
            /\ last' = Result("try_unwrap", h, owner[h], FALSE, NoValue, FALSE)

\* CombArc::make_inner(what): try_unwrap, or clone the pointee and drop the handle.
make_inner(h) ==
    /\ kind[h] = "comb"
    /\ LET c == owner[h] IN
       IF TryUnwrapOk(c)
       THEN /\ MoveOut(h)
            /\ last' = Result("make_inner", h, owner[h], TRUE, value[c], FALSE)
       ELSE /\ DropHandle(h)
            /\ last' = Result("make_inner", h, owner[h], TRUE, TClone(value[c]), TRUE)

\* Arc::downgrade(CombArc::get_arc(&h)): a new Weak on the handle's cell.
downgrade(h, o) ==
    /\ kind[h] /= "none"
    /\ obs[o] = NoCell
    /\ weak' = [weak EXCEPT ![owner[h]] = @ + 1]
    /\ obs' = [obs EXCEPT ![o] = owner[h]]
    /\ UNCHANGED <<strong, value, used, owner, kind>>
    /\ last' = Result("downgrade", h, owner[h], TRUE, NoValue, FALSE)

\* Weak::upgrade: None, or Some(raw handle), which the caller keeps in slot g
\* or, when g = NoSlot, drops at the end of the statement
\* (downgrade.upgrade().is_none()).
upgrade(o, g) ==
    /\ obs[o] /= NoCell
    /\ g /= NoSlot => kind[g] = "none"
    /\ LET c == obs[o] IN
       IF UpgradeOk(c)
       THEN /\ strong' = IF g = NoSlot THEN strong ELSE IncStrong(c)
            /\ owner' = IF g = NoSlot THEN owner ELSE [owner EXCEPT ![g] = c]
            /\ kind' = IF g = NoSlot THEN kind ELSE [kind EXCEPT ![g] = "raw"]
            /\ UNCHANGED <<weak, value, used, obs>>
            /\ last' = Result("upgrade", o, c, TRUE, NoValue, FALSE)
       ELSE /\ UNCHANGED <<strong, weak, value, used, owner, kind, obs>>
            /\ last' = Result("upgrade", o, c, FALSE, NoValue, FALSE)

\* An owning handle (wrapped or raw) goes out of scope.
drop(h) ==
    /\ kind[h] /= "none"
    /\ DropHandle(h)
    /\ last' = Result("drop", h, owner[h], TRUE, NoValue, FALSE)

\* Mutant: a dropped Weak stays counted.
drop_weak_Leaked(o) ==
    /\ obs[o] /= NoCell
    /\ obs' = [obs EXCEPT ![o] = NoCell]
    /\ UNCHANGED <<strong, weak, value, used, owner, kind>>
    /\ last' = Result("drop_weak", o, obs[o], TRUE, NoValue, FALSE)

\* A Weak goes out of scope.
drop_weak(o) ==
    /\ obs[o] /= NoCell
    /\ weak' = [weak EXCEPT ![obs[o]] = @ - 1]
    /\ obs' = [obs EXCEPT ![o] = NoCell]
    /\ UNCHANGED <<strong, value, used, owner, kind>>
    /\ last' = Result("drop_weak", o, obs[o], TRUE, NoValue, FALSE)

\* The slot a returned handle is stored in: slots are interchangeable names of
\* program variables, so a new handle takes the first empty one.
FreeHandles == {g \in Handles : kind[g] = "none" /\ \A f \in 1..(g - 1) : kind[f] /= "none"}
FreeObservers == {o \in Observers : obs[o] = NoCell /\ \A p \in 1..(o - 1) : obs[p] /= NoCell}

Next ==
    \/ \E g \in FreeHandles, v \in Values : new(g, v) /\ UNCHANGED thr
    \/ \E h \in Handles : from_arc(h) /\ UNCHANGED thr
    \/ \E h \in Handles : into_arc(h) /\ UNCHANGED thr
    \/ \E h \in Handles, g \in FreeHandles : clone(h, g) /\ UNCHANGED thr
    \/ \E h \in Handles, g \in FreeHandles : clone_unique(h, g) /\ UNCHANGED thr
    \/ \E h \in Handles : deref(h) /\ UNCHANGED thr
    \/ \E h \in Handles, v \in Values : set(h, v) /\ UNCHANGED thr
    \/ \E h \in Handles, w \in Values \cup {NoValue} : deref_mut(h, w) /\ UNCHANGED thr
    \/ \E h \in Handles : try_unwrap(h) /\ UNCHANGED thr
    \/ \E h \in Handles : make_inner(h) /\ UNCHANGED thr
    \/ \E h \in Handles, o \in FreeObservers : downgrade(h, o) /\ UNCHANGED thr
    \/ \E o \in Observers, g \in FreeHandles \cup {NoSlot} : upgrade(o, g) /\ UNCHANGED thr
    \/ \E h \in Handles : drop(h) /\ UNCHANGED thr
    \/ \E o \in Observers : drop_weak(o) /\ UNCHANGED thr

Spec == Init /\ [][Next]_vars

\* Next with the two read-only operations that only report: get_arc and ==.
NextAll ==
    \/ Next
    \/ \E h \in Handles : get_arc(h) /\ UNCHANGED thr
    \/ \E h, g \in Handles : eq(h, g) /\ UNCHANGED thr

SpecAll == Init /\ [][NextAll]_vars

TypeOK ==
    /\ strong \in [Cells -> 0..NumHandles]
    /\ weak \in [Cells -> 0..NumObservers]
    /\ value \in [Cells -> Values \cup {NoValue}]
    /\ used \in 0..MaxCells
    /\ owner \in [Handles -> Cells \cup {NoCell}]
    /\ kind \in [Handles -> {"none", "comb", "raw"}]
    /\ obs \in [Observers -> Cells \cup {NoCell}]

\* ---- threads sharing CombArc cells ----------------------------------------
\* CombArc<T> is Send + Sync through its Arc<T>: handles and Weaks are moved to
\* threads, which then run the operations below concurrently.  Each action is
\* one atomic step of the Arc operation that the CombArc method calls.

\* The cell thread t's current operation works on.
CellOf(t) == owner[thr[t].h]

\* The handles / Weaks thread t holds.
HeldBy(t) == thr[t].held
WeaksHeldBy(t) == thr[t].weaks

\* The main thread made one cell, cloned its handle and downgraded it, and
\* moved each handle and each Weak into a thread.
InitConc ==
    \E v \in Values, k \in 1..NumHandles, m \in 0..NumObservers,
       of \in [Handles -> Threads], wof \in [Observers -> Threads] :
        /\ strong = [c \in Cells |-> IF c = 1 THEN k ELSE 0]
        /\ weak = [c \in Cells |-> IF c = 1 THEN m ELSE 0]
        /\ value = [c \in Cells |-> IF c = 1 THEN v ELSE NoValue]
        /\ used = 1
        /\ owner = [h \in Handles |-> IF h <= k THEN 1 ELSE NoCell]
        /\ kind = [h \in Handles |-> IF h <= k THEN "comb" ELSE "none"]
        /\ obs = [o \in Observers |-> IF o <= m THEN 1 ELSE NoCell]
        /\ last = Result("init", NoSlot, NoCell, TRUE, NoValue, FALSE)
        /\ thr = [t \in Threads |->
                    [pc |-> "idle", h |-> NoSlot,
                     held |-> {h \in 1..k : of[h] = t},
                     weaks |-> {o \in 1..m : wof[o] = t}]]

\* Thread t clones its handle h into slot g: one atomic increment of strong.
t_clone(t, h, g) ==
    /\ thr[t].pc = "idle" /\ h \in HeldBy(t)
    /\ strong' = IncStrong(owner[h])
    /\ owner' = [owner EXCEPT ![g] = owner[h]]
    /\ kind' = [kind EXCEPT ![g] = kind[h]]
    /\ thr' = [thr EXCEPT ![t].held = @ \cup {g}]
    /\ UNCHANGED <<weak, value, used, obs, last>>

\* Thread t drops its handle h: one atomic decrement, the last owner destroys
\* the value.
t_drop(t, h) ==
    /\ thr[t].pc = "idle" /\ h \in HeldBy(t)
    /\ DropHandle(h)
    /\ thr' = [thr EXCEPT ![t].held = @ \ {h}]
    /\ UNCHANGED last

\* Thread t upgrades its Weak o into slot g: an atomic "increment strong
\* unless it is 0"; the result is a plain Arc.
t_upgrade(t, o, g) ==
    /\ thr[t].pc = "idle" /\ o \in WeaksHeldBy(t)
    /\ UpgradeOk(obs[o])
    /\ strong' = IncStrong(obs[o])
    /\ owner' = [owner EXCEPT ![g] = obs[o]]
    /\ kind' = [kind EXCEPT ![g] = "raw"]
    /\ thr' = [thr EXCEPT ![t].held = @ \cup {g}]
    /\ UNCHANGED <<weak, value, used, obs, last>>

\* Thread t drops its Weak o.
t_drop_weak(t, o) ==
    /\ thr[t].pc = "idle" /\ o \in WeaksHeldBy(t)
    /\ weak' = [weak EXCEPT ![obs[o]] = @ - 1]
    /\ obs' = [obs EXCEPT ![o] = NoCell]
    /\ thr' = [thr EXCEPT ![t].weaks = @ \ {o}]
    /\ UNCHANGED <<strong, value, used, owner, kind, last>>

\* Thread t takes a shared view (&T) through its handle h and starts reading.
t_deref(t, h) ==
    /\ thr[t].pc = "idle" /\ h \in HeldBy(t)
    /\ thr' = [thr EXCEPT ![t].pc = "read", ![t].h = h]
    /\ UNCHANGED <<strong, weak, value, used, owner, kind, obs, last>>

\* Thread t's shared view ends.
t_release(t) ==
    /\ thr[t].pc = "read"
    /\ thr' = [thr EXCEPT ![t].pc = "idle", ![t].h = NoSlot]
    /\ UNCHANGED <<strong, weak, value, used, owner, kind, obs, last>>

\* Mutant: the uniqueness test only loads strong and leaves it at 1.
MakeMutCas_LoadOnly(c) == strong

\* The uniqueness test of Arc::make_mut when it succeeds: strong goes from 1
\* to 0 in one compare-and-swap, so that no Weak can upgrade meanwhile.
MakeMutCas(c) == [strong EXCEPT ![c] = 0]

\* Thread t calls deref_mut on its CombArc h; first step of Arc::make_mut:
\* the compare-and-swap of strong from 1 to 0.
t_deref_mut(t, h) ==
    /\ thr[t].pc = "idle" /\ h \in HeldBy(t) /\ kind[h] = "comb"
    /\ IF MakeMutClones(owner[h])
       THEN /\ thr' = [thr EXCEPT ![t].pc = "clone", ![t].h = h]
            /\ UNCHANGED strong
       ELSE /\ thr' = [thr EXCEPT ![t].pc = "unique", ![t].h = h]
            /\ strong' = MakeMutCas(owner[h])
    /\ UNCHANGED <<weak, value, used, owner, kind, obs, last>>

\* Arc::make_mut after a failed compare-and-swap: clone the pointee into a
\* fresh cell, rebind the handle, release the reference to the old cell.
t_make_mut_clone(t) ==
    /\ thr[t].pc = "clone" /\ used < MaxCells
    /\ LET h == thr[t].h
           c == owner[h]
           n == used + 1
       IN /\ used' = n
          /\ strong' = [DropStrongCount(c) EXCEPT ![n] = 1]
          /\ value' = [DropStrongValue(c) EXCEPT ![n] = TClone(value[c])]
          /\ owner' = [owner EXCEPT ![h] = n]
    /\ thr' = [thr EXCEPT ![t].pc = "write"]
    /\ UNCHANGED <<weak, kind, obs, last>>

\* Arc::make_mut after a successful compare-and-swap: with Weaks outstanding
\* the pointee moves to a fresh cell and the old cell keeps strong 0; without
\* them strong is stored back as 1 and the cell is borrowed in place.
t_make_mut_unique(t) ==
    /\ thr[t].pc = "unique"
    /\ LET h == thr[t].h
           c == owner[h]
           n == used + 1
       IN IF weak[c] /= 0
          THEN /\ used < MaxCells
               /\ used' = n
               /\ strong' = [strong EXCEPT ![c] = 0, ![n] = 1]
               /\ value' = [value EXCEPT ![c] = NoValue, ![n] = value[c]]
               /\ owner' = [owner EXCEPT ![h] = n]
          ELSE /\ strong' = [strong EXCEPT ![c] = 1]
               /\ UNCHANGED <<value, used, owner>>
    /\ thr' = [thr EXCEPT ![t].pc = "write"]
    /\ UNCHANGED <<weak, kind, obs, last>>

\* Thread t writes w through the exclusive view (&mut T) deref_mut returned,
\* or leaves the pointee alone (NoValue), and the view ends.
t_write(t, w) ==
    /\ thr[t].pc = "write"
    /\ value' = IF w = NoValue THEN value ELSE [value EXCEPT ![CellOf(t)] = w]
    /\ thr' = [thr EXCEPT ![t].pc = "idle", ![t].h = NoSlot]
    /\ UNCHANGED <<strong, weak, used, owner, kind, obs, last>>

NextConc ==
    \/ \E t \in Threads, h \in Handles, g \in FreeHandles : t_clone(t, h, g)
    \/ \E t \in Threads, h \in Handles : t_drop(t, h)
    \/ \E t \in Threads, o \in Observers, g \in FreeHandles : t_upgrade(t, o, g)
    \/ \E t \in Threads, o \in Observers : t_drop_weak(t, o)
    \/ \E t \in Threads, h \in Handles : t_deref(t, h)
    \/ \E t \in Threads : t_release(t)
    \/ \E t \in Threads, h \in Handles : t_deref_mut(t, h)
    \/ \E t \in Threads : t_make_mut_clone(t)
    \/ \E t \in Threads : t_make_mut_unique(t)
    \/ \E t \in Threads, w \in Values \cup {NoValue} : t_write(t, w)

SpecConc == InitConc /\ [][NextConc]_vars

\* ---- the local tier: CombRc over Rc --------------------------------------
\* CombRc's operations as functions of the tier's state s: a record of the
\* counts, values, handles and observers.  Each yields can (the call is
\* possible in s), s (the state after it) and r (what it returned).  The
\* results carry the operation names of the thread-safe tier: from_arc,
\* into_arc and get_arc stand for from_rc, From<CombRc<T>> for Rc<T> and get_rc.

\* The state of a tier that stands where the variables stand.
Tier ==
    [strong |-> strong, weak |-> weak, value |-> value, used |-> used,
     owner |-> owner, kind |-> kind, obs |-> obs]

\* The call is not possible: no such handle, or no cell left to allocate.
RcNone == [can |-> FALSE, s |-> NoCell, r |-> NoValue]
RcOut(s, r) == [can |-> TRUE, s |-> s, r |-> r]

\* Rc::strong_count / Rc::weak_count of cell c (plain, non-atomic counters).
rc_strong_count(s, c) == s.strong[c]
rc_weak_count(s, c) == s.weak[c]

\* A fresh Rc allocation holding v, referenced by slot h.
rc_alloc(s, h, v) ==
    [s EXCEPT !.strong[s.used + 1] = 1, !.weak[s.used + 1] = 0,
              !.value[s.used + 1] = v, !.used = s.used + 1,
              !.owner[h] = s.used + 1]

\* Drop of one Rc on cell c: the last one destroys the pointee.
rc_dec_strong(s, c) ==
    [s EXCEPT !.strong[c] = @ - 1,
              !.value[c] = IF rc_strong_count(s, c) = 1 THEN NoValue ELSE @]

\* CombRc::new(what).
rc_new(s, g, v) ==
    IF s.kind[g] /= "none" \/ s.used >= MaxCells THEN RcNone
    ELSE RcOut([rc_alloc(s, g, v) EXCEPT !.kind[g] = "comb"],
               Result("new", g, NoCell, TRUE, v, FALSE))

\* CombRc::from_rc(what) / From<Rc<T>>.
rc_from_rc(s, h) ==
    IF s.kind[h] /= "raw" THEN RcNone
    ELSE RcOut([s EXCEPT !.kind[h] = "comb"],
               Result("from_arc", h, s.owner[h], TRUE, NoValue, FALSE))

\* From<CombRc<T>> for Rc<T>.
rc_into_rc(s, h) ==
    IF s.kind[h] /= "comb" THEN RcNone
    ELSE RcOut([s EXCEPT !.kind[h] = "raw"],
               Result("into_arc", h, s.owner[h], TRUE, NoValue, FALSE))

\* #[derive(Clone)] on CombRc: Rc::clone.
rc_clone(s, h, g) ==
    IF s.kind[h] /= "comb" \/ s.kind[g] /= "none" THEN RcNone
    ELSE RcOut([s EXCEPT !.strong[s.owner[h]] = @ + 1, !.owner[g] = s.owner[h],
                         !.kind[g] = "comb"],
               Result("clone", h, s.owner[h], TRUE, NoValue, FALSE))

\* CombRc::clone_unique(what).
rc_clone_unique(s, h, g) ==
    IF s.kind[h] /= "comb" \/ s.kind[g] /= "none" \/ s.used >= MaxCells THEN RcNone
    ELSE RcOut([rc_alloc(s, g, TClone(s.value[s.owner[h]])) EXCEPT !.kind[g] = "comb"],
               Result("clone_unique", h, s.owner[h], TRUE, NoValue, TRUE))

\* Deref::deref for CombRc.
rc_deref(s, h) ==
    IF s.kind[h] /= "comb" THEN RcNone
    ELSE RcOut(s, Result("deref", h, s.owner[h], TRUE, s.value[s.owner[h]], FALSE))

\* CombRc::get_rc(what).
rc_get_rc(s, h) ==
    IF s.kind[h] /= "comb" THEN RcNone
    ELSE RcOut(s, Result("get_arc", h, s.owner[h], TRUE, NoValue, FALSE))

\* h == g through the PartialEq derived on CombRc.
rc_eq(s, h, g) ==
    IF s.kind[h] /= "comb" \/ s.kind[g] /= "comb" THEN RcNone
    ELSE RcOut(s, [Result("eq", h, s.owner[h],
                          s.value[s.owner[h]] = s.value[s.owner[g]],
                          s.value[s.owner[h]], FALSE) EXCEPT !.g = g])

\* Cell::set through Deref for CombRc.
rc_set(s, h, v) ==
    IF s.kind[h] /= "comb" THEN RcNone
    ELSE RcOut([s EXCEPT !.value[s.owner[h]] = v],
               Result("set", h, s.owner[h], TRUE, v, FALSE))

\* DerefMut::deref_mut for CombRc: Rc::make_mut(&mut self.inner), then the
\* caller's use of the returned &mut T (a write of w, none when w = NoValue).
rc_deref_mut(s, h, w) ==
    IF s.kind[h] /= "comb" THEN RcNone
    ELSE LET c == s.owner[h]
             view(v) == IF w = NoValue THEN v ELSE w
         IN IF rc_strong_count(s, c) /= 1
            THEN \* other Rc pointers exist: clone the pointee
                 IF s.used >= MaxCells THEN RcNone
                 ELSE RcOut(rc_alloc(rc_dec_strong(s, c), h, view(TClone(s.value[c]))),
                            Result("deref_mut", h, c, TRUE, TClone(s.value[c]), TRUE))
            ELSE IF rc_weak_count(s, c) /= 0
            THEN \* only Weaks are left: move the pointee out from under them
                 IF s.used >= MaxCells THEN RcNone
                 ELSE RcOut(rc_alloc([s EXCEPT !.strong[c] = 0, !.value[c] = NoValue],
                                     h, view(s.value[c])),
                            Result("deref_mut", h, c, TRUE, s.value[c], FALSE))
            ELSE RcOut([s EXCEPT !.value[c] = view(@)],
                       Result("deref_mut", h, c, TRUE, s.value[c], FALSE))

\* Rc::try_unwrap(what.inner) succeeded: the handle is consumed, the pointee
\* moved out.
rc_unwrapped(s, h) ==
    [s EXCEPT !.strong[s.owner[h]] = 0, !.value[s.owner[h]] = NoValue,
              !.owner[h] = NoCell, !.kind[h] = "none"]

\* CombRc::try_unwrap(what).
rc_try_unwrap(s, h) ==
    IF s.kind[h] /= "comb" THEN RcNone
    ELSE LET c == s.owner[h]
         IN IF rc_strong_count(s, c) = 1
            THEN RcOut(rc_unwrapped(s, h),
                       Result("try_unwrap", h, c, TRUE, s.value[c], FALSE))
            ELSE RcOut(s, Result("try_unwrap", h, c, FALSE, NoValue, FALSE))

\* CombRc::make_inner(what).
rc_make_inner(s, h) ==
    IF s.kind[h] /= "comb" THEN RcNone
    ELSE LET c == s.owner[h]
         IN IF rc_strong_count(s, c) = 1
            THEN RcOut(rc_unwrapped(s, h),
                       Result("make_inner", h, c, TRUE, s.value[c], FALSE))
            ELSE RcOut([rc_dec_strong(s, c) EXCEPT !.owner[h] = NoCell, !.kind[h] = "none"],
                       Result("make_inner", h, c, TRUE, TClone(s.value[c]), TRUE))

\* Rc::downgrade(CombRc::get_rc(&h)).
rc_downgrade(s, h, o) ==
    IF s.kind[h] = "none" \/ s.obs[o] /= NoCell THEN RcNone
    ELSE RcOut([s EXCEPT !.weak[s.owner[h]] = @ + 1, !.obs[o] = s.owner[h]],
               Result("downgrade", h, s.owner[h], TRUE, NoValue, FALSE))

\* rc::Weak::upgrade, the Rc kept in slot g or dropped at once (g = NoSlot).
rc_upgrade(s, o, g) ==
    IF s.obs[o] = NoCell \/ (g /= NoSlot /\ s.kind[g] /= "none") THEN RcNone
    ELSE LET c == s.obs[o]
         IN IF rc_strong_count(s, c) = 0
            THEN RcOut(s, Result("upgrade", o, c, FALSE, NoValue, FALSE))
            ELSE RcOut(IF g = NoSlot THEN s
                       ELSE [s EXCEPT !.strong[c] = @ + 1, !.owner[g] = c,
                                      !.kind[g] = "raw"],
                       Result("upgrade", o, c, TRUE, NoValue, FALSE))

\* A CombRc or an Rc goes out of scope.
rc_drop(s, h) ==
    IF s.kind[h] = "none" THEN RcNone
    ELSE RcOut([rc_dec_strong(s, s.owner[h]) EXCEPT !.owner[h] = NoCell, !.kind[h] = "none"],
               Result("drop", h, s.owner[h], TRUE, NoValue, FALSE))

\* An rc::Weak goes out of scope.
rc_drop_weak(s, o) ==
    IF s.obs[o] = NoCell THEN RcNone
    ELSE RcOut([s EXCEPT !.weak[s.obs[o]] = @ - 1, !.obs[o] = NoCell],
               Result("drop_weak", o, s.obs[o], TRUE, NoValue, FALSE))

\* ---- properties ---------------------------------------------------------

\* The step just taken is operation op called on slot h.
Step(op, h) == last'.op = op /\ last'.h = h

\* Every owning handle other than h keeps its cell and its kind.
OthersKept(h) == \A g \in Handles \ {h} : owner'[g] = owner[g] /\ kind'[g] = kind[g]

\* Some observer references cell c.
Observed(c) == \E o \in Observers : obs[o] = c

\* C1: deref_mut on a handle whose cell C has strong_count > 1 clones the
\* pointee into a fresh cell C' (strong 1, weak 0, a value equal to C's),
\* rebinds the handle to C', takes exactly one off C's strong_count, and
\* leaves every other owning handle on C, whose value is unchanged.
C1_DerefMutSharedDiverges ==
    [][\A h \in Handles :
        (Step("deref_mut", h) /\ strong[owner[h]] > 1) =>
            LET c == owner[h]
                n == owner'[h] IN
            /\ n = used + 1 /\ used' = n
            /\ kind'[h] = "comb"
            /\ strong'[n] = 1 /\ weak'[n] = 0
            /\ last'.cloned /\ last'.val = value[c]
            /\ value'[n] \in Values
            /\ strong'[c] = strong[c] - 1
            /\ weak'[c] = weak[c]
            /\ value'[c] = value[c]
            /\ OthersKept(h)
            /\ obs' = obs
      ]_vars

\* C1 witness: a deref_mut has cloned, and a sibling handle is still on the old cell.
C1_Witness ==
    /\ last.op = "deref_mut" /\ last.cloned
    /\ owner[last.h] /= last.cell
    /\ \E g \in Handles \ {last.h} : kind[g] = "comb" /\ owner[g] = last.cell

\* C2 as claimed: deref_mut on a sole owner never changes the handle's
\* address, whatever the weak_count.
C2_SoleOwnerKeepsAddress ==
    [][\A h \in Handles :
        (Step("deref_mut", h) /\ strong[owner[h]] = 1) => owner'[h] = owner[h]
      ]_vars

\* C2 amended: deref_mut on a sole owner whose cell has no observer
\* (strong_count == 1, weak_count == 0) does not change the handle's address
\* and leaves the counts as they were, so successive calls stay in place;
\* on a sole owner whose cell has observers it changes the handle's address.
C2_SoleUnobservedOwnerKeepsAddress ==
    [][\A h \in Handles :
        (Step("deref_mut", h) /\ strong[owner[h]] = 1) =>
            IF weak[owner[h]] = 0
            THEN /\ owner'[h] = owner[h]
                 /\ strong' = strong /\ weak' = weak /\ used' = used
            ELSE /\ owner'[h] /= owner[h]
                 /\ obs' = obs
      ]_vars

\* C2 witness: a deref_mut happened when only one cell was ever allocated, so
\* the handle was borrowed in place.
C2_Witness ==
    /\ last.op = "deref_mut" /\ used = 1
    /\ owner[last.h] = last.cell /\ strong[last.cell] = 1

\* C3: deref_mut runs T::clone if and only if strong_count > 1 at call time;
\* a sole owner never clones, whatever the weak_count.
C3_ClonesIffShared ==
    [][\A h \in Handles :
        Step("deref_mut", h) => (last'.cloned <=> strong[owner[h]] > 1)
      ]_vars

\* C3 witness: a sole owner with an observer was mutably borrowed without a
\* clone (the handle moved, the observer stayed behind).
C3_Witness ==
    /\ last.op = "deref_mut" /\ ~last.cloned
    /\ owner[last.h] /= last.cell
    /\ Observed(last.cell)

\* The deref_mut just executed took the pointee away from cell c, leaving
\* its observers behind.
Dissociated(c) ==
    /\ last.op = "deref_mut" /\ ~last.cloned
    /\ last.cell = c /\ owner[last.h] /= c

\* C4: deref_mut on a sole owner whose cell has observers dissociates all of
\* them: the old cell is left without owner while the handle stays alive on
\* a cell of its own, and from then on no upgrade of an observer of the old
\* cell succeeds.
C4_SoleOwnerDissociatesWeaks ==
    /\ [][\A h \in Handles :
            (Step("deref_mut", h) /\ strong[owner[h]] = 1 /\ weak[owner[h]] > 0) =>
                LET c == owner[h] IN
                /\ strong'[c] = 0
                /\ obs' = obs /\ weak'[c] = weak[c]
                /\ kind'[h] = "comb" /\ owner'[h] /= c
                /\ strong'[owner'[h]] = 1
                /\ value'[owner'[h]] \in Values
         ]_vars
    /\ \A c \in Cells :
         [](Dissociated(c) => [](~(last.op = "upgrade" /\ last.cell = c /\ last.ok)))

\* C4 witness: a deref_mut left the observers of the old cell on a cell
\* without owner, while the handle is alive as the sole owner of another cell.
C4_Witness ==
    /\ \E c \in Cells : Dissociated(c) /\ Observed(c) /\ strong[c] = 0 /\ weak[c] > 0
    /\ kind[last.h] = "comb" /\ strong[owner[last.h]] = 1

\* C5 as claimed: try_unwrap succeeds iff strong_count == 1 and weak_count == 0.
C5_TryUnwrapIffUniqueUnobserved ==
    [][\A h \in Handles :
        Step("try_unwrap", h) =>
            (last'.ok <=> (strong[owner[h]] = 1 /\ weak[owner[h]] = 0))
      ]_vars

\* C5 amended: try_unwrap succeeds iff strong_count == 1 at call time,
\* whatever the weak_count; only another owning handle makes it fail.
C5_TryUnwrapIffSoleOwner ==
    [][\A h \in Handles :
        Step("try_unwrap", h) =>
            /\ last'.ok <=> strong[owner[h]] = 1
            /\ last'.ok => last'.val = value[owner[h]] /\ last'.val \in Values
      ]_vars

\* C5 witness: try_unwrap succeeded on a cell that an observer references.
C5_Witness ==
    /\ last.op = "try_unwrap" /\ last.ok
    /\ Observed(last.cell)

\* C6: a failed try_unwrap returns a handle on the same cell and changes
\* nothing: counts, values and every handle's and observer's cell are as before.
C6_FailedTryUnwrapChangesNothing ==
    [][\A h \in Handles :
        (Step("try_unwrap", h) /\ ~last'.ok) =>
            /\ kind'[h] = "comb" /\ owner'[h] = owner[h]
            /\ UNCHANGED <<strong, weak, value, used, owner, kind, obs>>
      ]_vars

\* C6 witness: try_unwrap failed and the handle is still there.
C6_Witness ==
    /\ last.op = "try_unwrap" /\ ~last.ok
    /\ kind[last.h] = "comb" /\ owner[last.h] = last.cell
    /\ strong[last.cell] > 1

\* C7: make_inner returns a value equal to the pointee at call time, moving
\* it out of a sole owner and cloning it otherwise; the handle is consumed,
\* the cell's strong_count drops by exactly 1, and the other owning handles
\* keep their cell, whose value is unchanged.
C7_MakeInner ==
    [][\A h \in Handles :
        Step("make_inner", h) =>
            LET c == owner[h] IN
            /\ last'.ok /\ last'.val = value[c] /\ last'.val \in Values
            /\ last'.cloned <=> strong[c] > 1
            /\ kind'[h] = "none"
            /\ strong' = [strong EXCEPT ![c] = @ - 1]
            /\ OthersKept(h)
            /\ strong[c] > 1 => value' = value
            /\ \A d \in Cells \ {c} : value'[d] = value[d]
            /\ weak' = weak /\ obs' = obs /\ used' = used
      ]_vars

\* C7 witness: make_inner cloned, and another owner still holds the cell with its value.
C7_Witness ==
    /\ last.op = "make_inner" /\ last.cloned
    /\ \E g \in Handles : kind[g] = "comb" /\ owner[g] = last.cell
                            /\ value[last.cell] = last.val

\* C8: once an allocated cell's strong_count is 0 it stays 0, and no
\* upgrade of an observer of that cell succeeds, whatever its weak_count.
C8_DeadCellStaysDead ==
    [][\A c \in 1..used :
        strong[c] = 0 =>
            /\ strong'[c] = 0
            /\ \A o \in Observers :
                 (Step("upgrade", o) /\ obs[o] = c) => ~last'.ok
      ]_vars

\* C8 witness: an upgrade failed on a cell whose pointee was moved out or
\* destroyed and that an observer still references.
C8_Witness ==
    /\ last.op = "upgrade" /\ ~last.ok
    /\ strong[last.cell] = 0 /\ weak[last.cell] > 0
    /\ value[last.cell] = NoValue

C10_CloneAliases ==
    [][\A h \in Handles :
        Step("clone", h) =>
            /\ last'.ok
            /\ \E g \in Handles \ {h} :
                 /\ kind[g] = "none" /\ kind'[g] = "comb"
                 /\ owner'[g] = owner[h]
                 /\ as_ptr(g)' = as_ptr(h)'
                 /\ HandleEq(h, g)'
                 /\ \A f \in Handles \ {g} : owner'[f] = owner[f] /\ kind'[f] = kind[f]
            /\ strong' = [strong EXCEPT ![owner[h]] = @ + 1]
            /\ weak' = weak /\ value' = value /\ used' = used /\ obs' = obs
      ]_vars

\* C10 witness: a clone was made and both handles are on the same cell.
C10_Witness ==
    /\ last.op = "clone"
    /\ strong[last.cell] = 2
    /\ \A h \in Handles : kind[h] = "comb" /\ owner[h] = last.cell
\* The owning handles (wrapped or raw) that reference cell c.
OwnersOf(c) == {h \in Handles : kind[h] /= "none" /\ owner[h] = c}

\* The observing handles that reference cell c.
ObserversOf(c) == {o \in Observers : obs[o] = c}

C13_InteriorMutationNoClone ==
    [][\A h \in Handles :
        Step("set", h) =>
            /\ UNCHANGED <<strong, weak, used, owner, kind, obs>>
            /\ ~last'.cloned
            /\ \A g \in Handles :
                 (kind[g] = "comb" /\ owner[g] = owner[h]) =>
                     /\ as_ptr(g)' = as_ptr(h)
                     /\ value'[owner'[g]] = last'.val
                     /\ HandleEq(h, g)'
            /\ \A d \in Cells \ {owner[h]} : value'[d] = value[d]
      ]_vars

\* C13 witness: a set through one of two aliasing handles, whose cell now
\* holds the value written.
C13_Witness ==
    /\ last.op = "set"
    /\ strong[last.cell] = 2
    /\ \A h \in Handles : kind[h] = "comb" /\ owner[h] = last.cell
    /\ value[last.cell] = last.val

\* C15: from_arc, into_arc, get_arc and deref change no count, no value and
\* no binding; the wrapper and the raw handle it was made from (or gives
\* back) reference the same cell.
C15_InteropChangesNothing ==
    [][\A h \in Handles :
        (Step("from_arc", h) \/ Step("into_arc", h) \/ Step("get_arc", h)
            \/ Step("deref", h)) =>
            /\ UNCHANGED <<strong, weak, value, used, owner, obs>>
            /\ owner'[h] = owner[h] /\ last'.cell = owner[h]
            /\ \A g \in Handles \ {h} : kind'[g] = kind[g]
            /\ last'.op = "from_arc" => (kind[h] = "raw" /\ kind'[h] = "comb")
            /\ last'.op = "into_arc" => (kind[h] = "comb" /\ kind'[h] = "raw")
            /\ last'.op \in {"get_arc", "deref"} => kind'[h] = kind[h]
            /\ last'.op = "deref" => last'.val = value[owner[h]]
      ]_vars

\* C15 witness: a raw handle obtained by upgrade next to a live owner was
\* wrapped; the wrapper is on the same cell, which still counts two owners.
C15_Witness ==
    /\ last.op = "from_arc"
    /\ kind[last.h] = "comb" /\ owner[last.h] = last.cell
    /\ strong[last.cell] = 2

\* C16: handle equality is equality of the pointees, never pointer
\* identity: handles on different cells are equal exactly when their
\* pointees are, and handles on the same cell are always equal.
C16_EqComparesPointees ==
    last.op = "eq" =>
        /\ last.ok <=> value[owner[last.h]] = value[owner[last.g]]
        /\ owner[last.h] = owner[last.g] => last.ok

\* C16 witness: two handles on different cells compared equal.
C16_Witness ==
    /\ last.op = "eq" /\ last.ok
    /\ owner[last.h] /= owner[last.g]

\* C17: strong_count is the number of live owning handles of the cell and
\* weak_count the number of live observing handles; so an owning handle
\* never references a cell whose strong_count is 0.
C17_CountsMatchHandles ==
    /\ \A c \in Cells :
         /\ strong[c] = Cardinality(OwnersOf(c))
         /\ weak[c] = Cardinality(ObserversOf(c))
    /\ \A h \in Handles :
         IF kind[h] = "none" THEN owner[h] = NoCell
         ELSE owner[h] \in 1..used /\ strong[owner[h]] >= 1

\* C17 witness: a cell with two owners and an observer.
C17_Witness ==
    \E c \in Cells : strong[c] = 2 /\ weak[c] = 1 /\ Cardinality(OwnersOf(c)) = 2

\* C18 as claimed: clone takes a sole-owner cell to SHARED, and a cell goes
\* from strong_count > 1 to strong_count == 1 only by a drop from 2 to 1.
C18_SharedToUniqueOnlyByDrop ==
    [][ /\ \A h \in Handles :
             (Step("clone", h) /\ strong[owner[h]] = 1) => strong'[owner[h]] > 1
        /\ \A c \in Cells :
             (strong[c] > 1 /\ strong'[c] = 1) =>
                 (strong[c] = 2 /\ last'.op = "drop" /\ last'.cell = c)
      ]_vars

\* C18 amended: clone takes a sole-owner cell to SHARED, and a cell goes
\* from strong_count > 1 to strong_count == 1 only from 2, when one of its
\* two owning handles leaves it: by a drop, by make_inner consuming the
\* handle, or by deref_mut rebinding the handle to a fresh cell.
C18_SharedToUniqueWhenOwnerLeaves ==
    [][ /\ \A h \in Handles :
             (Step("clone", h) /\ strong[owner[h]] = 1) => strong'[owner[h]] > 1
        /\ \A c \in Cells :
             (strong[c] > 1 /\ strong'[c] = 1) =>
                 /\ strong[c] = 2
                 /\ last'.op \in {"drop", "make_inner", "deref_mut"}
                 /\ last'.cell = c
                 /\ owner[last'.h] = c /\ owner'[last'.h] /= c
      ]_vars

\* C18 witness: make_inner on one of two owners left the cell with one owner.
C18_Witness ==
    /\ last.op = "make_inner" /\ last.cloned
    /\ strong[last.cell] = 1
    /\ kind[last.h] = "none"

\* C20: right after deref_mut returns, the cell the handle references has
\* strong_count 1 and weak_count 0: the handle is its only owner and no
\* observer references it.
C20_AfterDerefMutExclusive ==
    last.op = "deref_mut" =>
        LET c == owner[last.h] IN
        /\ kind[last.h] = "comb"
        /\ strong[c] = 1 /\ weak[c] = 0
        /\ OwnersOf(c) = {last.h}
        /\ ObserversOf(c) = {}
        /\ value[c] \in Values

\* C20 witness: deref_mut on a shared and observed cell; the handle moved to
\* a cell of its own and the old cell keeps its other owner and its observer.
C20_Witness ==
    /\ last.op = "deref_mut" /\ last.cloned
    /\ owner[last.h] /= last.cell
    /\ strong[last.cell] = 1 /\ weak[last.cell] = 1

TiersAgree(x) == x = [can |-> TRUE, s |-> Tier', r |-> last']

\* C19: CombArc and CombRc run side by side agree at every step: whatever
\* operation the CombArc tier performs, the same operation of the CombRc tier
\* on the same handles, started from the same strong and weak counts, values
\* and handle-to-cell aliasing, returns the same result and ends with the
\* same counts, values and aliasing.
C19_TiersAgree ==
    [][LET op == last'.op
           h == last'.h
       IN \/ op = "new" /\ \E v \in Values : TiersAgree(rc_new(Tier, h, v))
          \/ op = "from_arc" /\ TiersAgree(rc_from_rc(Tier, h))
          \/ op = "into_arc" /\ TiersAgree(rc_into_rc(Tier, h))
          \/ op = "clone" /\ \E g \in Handles : TiersAgree(rc_clone(Tier, h, g))
          \/ op = "clone_unique" /\ \E g \in Handles :
                TiersAgree(rc_clone_unique(Tier, h, g))
          \/ op = "deref" /\ TiersAgree(rc_deref(Tier, h))
          \/ op = "get_arc" /\ TiersAgree(rc_get_rc(Tier, h))
          \/ op = "eq" /\ TiersAgree(rc_eq(Tier, h, last'.g))
          \/ op = "set" /\ \E v \in Values : TiersAgree(rc_set(Tier, h, v))
          \/ op = "deref_mut" /\ \E w \in Values \cup {NoValue} :
                TiersAgree(rc_deref_mut(Tier, h, w))
          \/ op = "try_unwrap" /\ TiersAgree(rc_try_unwrap(Tier, h))
          \/ op = "make_inner" /\ TiersAgree(rc_make_inner(Tier, h))
          \/ op = "downgrade" /\ \E o \in Observers :
                TiersAgree(rc_downgrade(Tier, h, o))
          \/ op = "upgrade" /\ \E g \in Handles \cup {NoSlot} :
                TiersAgree(rc_upgrade(Tier, h, g))
          \/ op = "drop" /\ TiersAgree(rc_drop(Tier, h))
          \/ op = "drop_weak" /\ TiersAgree(rc_drop_weak(Tier, h))]_vars

\* Both tiers have moved the value out of a cell that Weaks still observe,
\* and the handle that owned it is gone.
C19_Witness ==
    /\ last.op = "try_unwrap" /\ last.ok
    /\ weak[last.cell] > 0 /\ strong[last.cell] = 0
    /\ kind[last.h] = "none"

====
